---- MODULE Spec2Model ----
(***************************************************************************)
(* grizli/stack.py: StackFitter and StackedSpectrum.                       *)
(*                                                                         *)
(* Numbers.  Pixel values are integers.  Flux is counted in units of 0.04  *)
(* (so the pedestal of fit_at_z is 1), inverse variances are 0, 4 or 16    *)
(* and contamination weights are 100 or 25 percent, which keeps every      *)
(* square root of the code exact.  Redshifts are held in fixed point on    *)
(* the log(1+z) axis: one unit is 1/68 of the coarse step of the tests     *)
(* below, wavelengths are log-wavelengths on the same axis, so that        *)
(* wave*(1+z) is an addition.  A non-finite float is the value NaN.        *)
(***************************************************************************)
EXTENDS Integers, Sequences, FiniteSets, TLC

VARIABLES
    hdu,     \* the stack file that __init__ opens (the input)
    cargs,   \* the constructor's arguments
    pc,      \* where the program is: "new", "noobj", "idle" (ready for a call), a
             \* phase of fit_zgrid, or "ret" (a call has returned or raised)
    sf,      \* the StackFitter object (its fields), once constructed
    zargs,   \* the arguments of the fit_zgrid calls
    ncalls,  \* how many calls that can change the object have been made
    run,     \* the locals of the fit_zgrid call in progress
    out      \* what the last completed call returned (or that it raised)

vars == <<hdu, cargs, pc, sf, zargs, ncalls, run, out>>

(***************************************************************************)
(* Bounds of the model.                                                    *)
(***************************************************************************)
MaxExt == 2          \* extensions in a stack file
MaxCalls == 2        \* calls that can change the object, after construction

(***************************************************************************)
(* Floats that are not finite, and sequences.                              *)
(***************************************************************************)
NaN == -1000

IsFinite(x) == x # NaN

RECURSIVE SeqSum(_)
SeqSum(s) == IF s = <<>> THEN 0 ELSE Head(s) + SeqSum(Tail(s))

\* np.sum / ndarray.sum of floats: one non-finite term makes the sum non-finite
FSum(s) == IF \E k \in 1..Len(s) : ~IsFinite(s[k]) THEN NaN ELSE SeqSum(s)

\* ndarray.max(): NaN when an entry is NaN
FMax(s) ==
    IF \E k \in 1..Len(s) : ~IsFinite(s[k]) THEN NaN
    ELSE CHOOSE m \in {s[k] : k \in 1..Len(s)} : \A k \in 1..Len(s) : s[k] <= m

RECURSIVE HStack(_)
HStack(ss) == IF ss = <<>> THEN <<>> ELSE Head(ss) \o HStack(Tail(ss))

\* np.sqrt of the inverse variances of the model (0, 1, 4, 16)
Sqrt(v) == CHOOSE r \in 0..4 : r * r = v

(***************************************************************************)
(* The stack file.  An extension holds SCI, WHT, KERNEL and the            *)
(* contamination weight of one exposure; the primary header lists the      *)
(* grisms and their position angles.                                       *)
(***************************************************************************)
Ext(sh, sci, wht, w100, kernel, prof, wave, flam) ==
    [sh |-> sh, sci |-> sci, wht |-> wht, w100 |-> w100, kernel |-> kernel,
     prof |-> prof, wave |-> wave, is_flambda |-> flam]

\* two pixels on the trace, the first brighter and with more weight
ExtA == Ext(<<1, 2>>, <<3, 0>>, <<16, 4>>, <<100, 100>>, <<1, 2, 1>>,
            <<2, 1>>, <<0, 136>>, TRUE)
\* three pixels, a bright one, a contaminated one
ExtB == Ext(<<1, 3>>, <<0, 3, 1>>, <<4, 16, 4>>, <<100, 100, 25>>, <<1, 2, 1>>,
            <<1, 2, 1>>, <<0, 136, 272>>, FALSE)
\* the same shape as ExtA, other data, one pixel without weight
ExtC == Ext(<<1, 2>>, <<4, 3>>, <<4, 0>>, <<100, 100>>, <<0, 1, 0>>,
            <<1, 1>>, <<0, 136>>, TRUE)
\* an exposure without any weight (WHT = 0 everywhere)
ExtD == Ext(<<1, 2>>, <<1, 0>>, <<0, 0>>, <<100, 100>>, <<1, 1, 1>>,
            <<1, 1>>, <<0, 136>>, TRUE)
\* an empty kernel: KERNEL sums to zero
ExtK == Ext(<<1, 2>>, <<1, 1>>, <<4, 4>>, <<100, 100>>, <<0, 0, 0>>,
            <<1, 1>>, <<0, 136>>, TRUE)

ExtLib == {ExtA, ExtB, ExtC, ExtD, ExtK}

GrismNames == <<"G102", "G141", "G800L", "G280">>
PaNames == <<"075", "100", "285", "310">>

\* The name of an extension: the grism and, for one position angle of it, the
\* angle ('G141,285' in the file; pa = "" names the grism's stack 'G141').
ExtVer(g, pa) == [g |-> g, pa |-> pa]

\* A stack file holding the exposures us: as the stacks of Len(us) grisms
\* (read with fit_stacks = True) and as position angles, the first n1 of them of
\* the first grism and the others of the second (read with fit_stacks = False).
StackFile(us, n1) ==
    LET n == Len(us)
        pas == [i \in 1..n |->
                   IF i = 1 THEN [j \in 1..n1 |-> PaNames[j]]
                   ELSE IF i = 2 THEN [j \in 1..(n - n1) |-> PaNames[n1 + j]]
                   ELSE <<>>]
        names == {ExtVer(GrismNames[i], "") : i \in 1..n}
                   \cup {ExtVer(GrismNames[1], PaNames[j]) : j \in 1..n1}
                   \cup {ExtVer(GrismNames[2], PaNames[j]) : j \in (n1 + 1)..n}
        idx(e) == IF e.pa = "" THEN CHOOSE i \in 1..n : GrismNames[i] = e.g
                  ELSE CHOOSE j \in 1..n : PaNames[j] = e.pa
    IN  [h0 |-> [grisms |-> [i \in 1..n |-> GrismNames[i]], pas |-> pas],
         data |-> [e \in names |-> us[idx(e)]]]

SeqsUpTo(S, n) == UNION {[1..k -> S] : k \in 1..n}

(***************************************************************************)
(* StackedSpectrum: one Exposure Unit.                                     *)
(***************************************************************************)
\* mask_min = 0.1, min_ivar = 0.01 (StackFitter's defaults), as fractions
MaskMinNum == 1
MaskMinDen == 10
MinIvarNum == 1
MinIvarDen == 100

\* x > (num/den) * m for floats x, m: False when either is not finite
GtFrac(x, num, den, m) == IsFinite(x) /\ IsFinite(m) /\ x * den > num * m

\* self.kernel /= self.kernel.sum(): dividing by a zero sum leaves no finite entry
NormKernel(kernel) ==
    IF SeqSum(kernel) = 0 THEN [k \in 1..Len(kernel) |-> NaN] ELSE kernel

\* compute_model() without a spectrum: the flat model, np.dot(fl, fit_data),
\* is the kernel's response at each pixel (prof) and is NaN where the kernel is
FlatModel(d) ==
    IF IsFinite(FSum(NormKernel(d.kernel))) THEN d.prof
    ELSE [k \in 1..Len(d.sci) |-> NaN]

\* StackedSpectrum.__init__ with sys_err below the model's precision and
\* mask_threshold = -1 (no drizzle_mask)
StackedSpectrum(d, extver) ==
    LET size == Len(d.sci)
        ivarf == d.wht
        mask0 == [k \in 1..size |->
                    GtFrac(ivarf[k], MinIvarNum, MinIvarDen, FMax(ivarf))]
        flat == FlatModel(d)
        whtmax == FMax(d.wht)
        elec == [k \in 1..size |->
                    IF ~IsFinite(flat[k]) THEN NaN
                    ELSE IF d.is_flambda
                         THEN (IF whtmax = 0 THEN NaN ELSE flat[k] * d.wht[k])
                         ELSE flat[k]]
        mask == [k \in 1..size |->
                    mask0[k] /\ GtFrac(elec[k], MaskMinNum, MaskMinDen, FMax(elec))]
    IN  [extver |-> extver, sh |-> d.sh, size |-> size, wave |-> d.wave,
         wavef |-> [k \in 1..size |-> d.wave[((k - 1) % d.sh[2]) + 1]],
         scif |-> d.sci, ivarf |-> ivarf,
         sivarf |-> [k \in 1..size |-> Sqrt(ivarf[k])],
         weightf |-> d.w100, kernel |-> NormKernel(d.kernel), flat |-> flat,
         fit_mask |-> mask]

(***************************************************************************)
(* The photometric catalog (eazyp) that __init__ and fit_combined_at_z     *)
(* read: per band fnu, efnu and the central wavelength lc.  The factors    *)
(* to_flam, zp and ext_corr/100 are 1 in the model's flux unit.            *)
(***************************************************************************)
NotObsThreshold == -90

None == [none |-> TRUE]

\* ok_phot, lines 174-175 and 278-279
OkPhot(cat) ==
    [b \in 1..Len(cat.fnu) |->
        /\ IsFinite(cat.efnu[b]) /\ IsFinite(cat.fnu[b])
        /\ cat.efnu[b] > 0
        /\ cat.fnu[b] > NotObsThreshold]

\* a[mask]: the entries of a where the boolean array mask is True
RECURSIVE Compress(_, _)
Compress(a, mask) ==
    IF a = <<>> THEN <<>>
    ELSE (IF Head(mask) THEN <<Head(a)>> ELSE <<>>) \o Compress(Tail(a), Tail(mask))

Count(mask) == Cardinality({k \in 1..Len(mask) : mask[k]})

(***************************************************************************)
(* StackFitter.__init__                                                    *)
(***************************************************************************)
\* lines 100-123 for one grism: the grism itself, or one name per position angle
ExtOfGrism(h0, i, fit_stacks) ==
    IF fit_stacks THEN <<ExtVer(h0.grisms[i], "")>>
    ELSE [j \in 1..Len(h0.pas[i]) |-> ExtVer(h0.grisms[i], h0.pas[i][j])]

\* self.ext before any exposure is dropped (pas = extensions = None)
ExtList(h0, fit_stacks) ==
    HStack([i \in 1..Len(h0.grisms) |-> ExtOfGrism(h0, i, fit_stacks)])

\* list.pop(i), with i counted from 1
ListPop(l, i) == SubSeq(l, 1, i - 1) \o SubSeq(l, i + 1, Len(l))

Reverse(s) == [k \in 1..Len(s) |-> s[Len(s) + 1 - k]]

\* for i in order: self.ext.pop(i)
RECURSIVE PopEach(_, _)
PopEach(ext, order) ==
    IF order = <<>> THEN ext ELSE PopEach(ListPop(ext, Head(order)), Tail(order))

\* lines 126-138: the indices of the exposures whose kernel sum is not finite
PopList(Eall) ==
    LET bad == [i \in 1..Len(Eall) |-> ~IsFinite(FSum(Eall[i].kernel))]
    IN  Compress([i \in 1..Len(Eall) |-> i], bad)

\* lines 126-138: self.E, the exposures whose kernel sum is finite
KeptUnits(Eall) ==
    Compress(Eall, [i \in 1..Len(Eall) |-> IsFinite(FSum(Eall[i].kernel))])

\* _get_slices: slice(x, x + E[i].size) for each unit, x the sizes before it
\* (Python's half-open ranges, counted from 0)
RECURSIVE SlicesFrom(_, _, _, _)
SlicesFrom(Next_, E, i, x) ==
    IF i > Next_ THEN <<>>
    ELSE <<[start |-> x, stop |-> x + E[i].size]>>
             \o SlicesFrom(Next_, E, i + 1, x + E[i].size)

\* a variant of _get_slices that never advances x
GetSlicesRestart(Next_, E) == [i \in 1..Next_ |-> [start |-> 0, stop |-> E[i].size]]

GetSlices(Next_, E) == SlicesFrom(Next_, E, 1, 0)

\* whether 0-based index k lies in slice sl
InSlice(k, sl) == sl.start <= k /\ k < sl.stop

\* a variant of _init_background whose ranges include their stop
InitBackgroundInclusive(Next_, Ndata, slices) ==
    [i \in 1..Next_ |-> [k \in 1..Ndata |->
        IF slices[i].start <= k - 1 /\ k - 1 <= slices[i].stop THEN 1 ELSE 0]]

\* _init_background: Abg[i, slices[i]] = 1 on zeros((Next, Ndata));
\* Abg[i][k] is the entry of row i at the (k-1)-th column
InitBackground(Next_, Ndata, slices) ==
    [i \in 1..Next_ |-> [k \in 1..Ndata |-> IF InSlice(k - 1, slices[i]) THEN 1 ELSE 0]]

(***************************************************************************)
(* mask_drizzle_overlaps                                                   *)
(***************************************************************************)
\* an exception, raised at a line of stack.py
RaisedAt(line) == [raised |-> TRUE, line |-> line]

Min2(a, b) == IF a <= b THEN a ELSE b

\* E.extver.startswith(grism)
OfGrism(E, g) == E.extver.g = g

\* lines 797-802 for the units i.. of E that belong to grism g; m is
\* min_grism[g] so far (<<>> before the first unit).  Arrays of different
\* sizes cannot be combined: line 800 raises.
RECURSIVE MinGrism(_, _, _, _)
MinGrism(E, g, i, m) ==
    IF i > Len(E) THEN [raised |-> FALSE, min |-> m]
    ELSE IF ~OfGrism(E[i], g) THEN MinGrism(E, g, i + 1, m)
    ELSE IF m = <<>>
         THEN MinGrism(E, g, i + 1,
                  [k \in 1..E[i].size |-> IF E[i].fit_mask[k] THEN E[i].scif[k] ELSE 0])
    ELSE IF Len(m) # E[i].size THEN RaisedAt(800)
    ELSE MinGrism(E, g, i + 1,
             [k \in 1..Len(m) |->
                 IF E[i].fit_mask[k]
                 THEN (IF m[k] = 0 THEN E[i].scif[k] ELSE Min2(m[k], E[i].scif[k]))
                 ELSE m[k]])

\* x < threshold/s for a float x and s = E.sivarf >= 0: threshold/0 is inf,
\* -inf or (0/0) NaN
LtThresholdOver(x, threshold, s) ==
    IF s = 0 THEN threshold > 0 ELSE x * s < threshold

\* line 809: new_mask for one unit
NewMask(Ei, m, threshold) ==
    [k \in 1..Ei.size |-> LtThresholdOver(Ei.scif[k] - m[k], threshold, Ei.sivarf[k])]

\* a variant of line 812 that assigns: E.fit_mask = new_mask
AssignMask(mask, new_mask) == [k \in 1..Len(mask) |-> new_mask[k]]

\* line 812: E.fit_mask &= new_mask
AndMask(mask, new_mask) == [k \in 1..Len(mask) |-> mask[k] /\ new_mask[k]]

\* mask_drizzle_overlaps(threshold) on the units E: the units with their masks
\* narrowed, or the exception (raised before any mask is touched)
MaskDrizzleOverlaps(grisms, E, threshold) ==
    LET mg == [gi \in 1..Len(grisms) |-> MinGrism(E, grisms[gi], 1, <<>>)]
        gidx(i) == CHOOSE gi \in 1..Len(grisms) : OfGrism(E[i], grisms[gi])
    IN  IF \E gi \in 1..Len(grisms) : mg[gi].raised THEN RaisedAt(800)
        ELSE [raised |-> FALSE,
              E |-> [i \in 1..Len(E) |->
                       [E[i] EXCEPT !.fit_mask =
                           AndMask(@, NewMask(E[i], mg[gidx(i)].min, threshold))]]]

(***************************************************************************)
(* StackFitter.__init__, lines 93-194.  a = [fit_stacks, overlap_threshold, *)
(* eazyp].  The result is the object's fields, or the exception raised.   *)
(***************************************************************************)
\* a variant of lines 160 and 646 that counts the pixels of the mask (line 645)
DoFCount(fit_mask, weightf) == Count(fit_mask)

\* line 160 and line 646: int((fit_mask*weightf).sum())
DoFOf(fit_mask, weightf) ==
    SeqSum([k \in 1..Len(fit_mask) |-> IF fit_mask[k] THEN weightf[k] ELSE 0]) \div 100

\* lines 147-160: the joint arrays of the units E
JointArrays(E) ==
    LET Masked(Ndata, weightf, ivarf, mask0) ==
            LET WithMask(mask) ==
                    [Ndata |-> Ndata,
                     scif |-> HStack([i \in 1..Len(E) |-> E[i].scif]),
                     ivarf |-> ivarf,
                     wavef |-> HStack([i \in 1..Len(E) |-> E[i].wavef]),
                     weightf |-> weightf,
                     sivarf |-> [k \in 1..Ndata |-> Sqrt(ivarf[k])],
                     fit_mask |-> mask,
                     DoF |-> DoFOf(mask, weightf)]
            IN  WithMask([k \in 1..Ndata |->
                    mask0[k] /\ GtFrac(ivarf[k], MinIvarNum, MinIvarDen, FMax(ivarf))])
        Weighted(weightf, ivar0) ==
            Masked(Len(weightf), weightf,
                   [k \in 1..Len(weightf) |-> (ivar0[k] * weightf[k]) \div 100],
                   HStack([i \in 1..Len(E) |-> E[i].fit_mask]))
    IN  Weighted(HStack([i \in 1..Len(E) |-> E[i].weightf]),
                 HStack([i \in 1..Len(E) |-> E[i].ivarf]))

\* lines 166-194: the accepted photometry, appended to the joint arrays j
WithPhotometry(j, eazyp) ==
    LET Accepted(ok_phot) ==
            LET Appended(Nphot, flam, eflam, lc) ==
                    [Nphot |-> Nphot,
                     scif |-> j.scif \o flam,
                     ivarf |-> j.ivarf \o [b \in 1..Nphot |-> 1 \div (eflam[b] * eflam[b])],
                     sivarf |-> j.sivarf \o [b \in 1..Nphot |-> 1 \div eflam[b]],
                     wavef |-> j.wavef \o lc,
                     weightf |-> j.weightf \o [b \in 1..Nphot |-> 100],
                     fit_mask |-> j.fit_mask \o [b \in 1..Nphot |-> TRUE],
                     DoF |-> j.DoF + Nphot]
            IN  Appended(Count(ok_phot), Compress(eazyp.fnu, ok_phot),
                         Compress(eazyp.efnu, ok_phot), Compress(eazyp.lc, ok_phot))
    IN  IF eazyp = None
        THEN [Nphot |-> 0, scif |-> j.scif, ivarf |-> j.ivarf, sivarf |-> j.sivarf,
              wavef |-> j.wavef, weightf |-> j.weightf, fit_mask |-> j.fit_mask,
              DoF |-> j.DoF]
        ELSE Accepted(OkPhot(eazyp))

\* lines 125-142: the units and their names, without the degenerate ones
RetainedUnits(file, ext0) ==
    LET Retained(Eall) ==
            LET Popped(pop) ==
                    [E |-> KeptUnits(Eall), ext |-> PopEach(ext0, Reverse(pop)),
                     Next |-> Len(ext0) - Len(pop)]
            IN  Popped(PopList(Eall))
    IN  Retained([i \in 1..Len(ext0) |-> StackedSpectrum(file.data[ext0[i]], ext0[i])])

StackFitterInit(file, a) ==
    LET Built(u, E) ==
            LET Joined(j, slices) ==
                    LET Object(p) ==
                            [raised |-> FALSE,
                             grisms |-> file.h0.grisms, ext |-> u.ext, Next |-> u.Next,
                             E |-> E, Ndata |-> j.Ndata,
                             scif |-> p.scif, ivarf |-> p.ivarf, sivarf |-> p.sivarf,
                             wavef |-> p.wavef, weightf |-> p.weightf,
                             fit_mask |-> p.fit_mask, DoF |-> p.DoF,
                             slices |-> slices,
                             Abg |-> InitBackground(u.Next, j.Ndata, slices),
                             Nphot |-> p.Nphot]
                    IN  Object(WithPhotometry(j, a.eazyp))
            IN  Joined(JointArrays(E), GetSlices(u.Next, E))
        Overlaps(u, ov) ==
            IF ov.raised THEN ov
            ELSE IF ov.E = <<>> THEN RaisedAt(148)      \* np.hstack of an empty list
            ELSE Built(u, ov.E)
        Units(u) ==
            Overlaps(u, IF a.fit_stacks THEN [raised |-> FALSE, E |-> u.E]
                        ELSE MaskDrizzleOverlaps(file.h0.grisms, u.E, a.overlap_threshold))
    IN  Units(RetainedUnits(file, ExtList(file.h0, a.fit_stacks)))

(***************************************************************************)
(* Templates.  A template is a name, the ends lo..hi of its rest-frame     *)
(* log-wavelength array and its flux.  Redshifting to u = log(1+z) adds u  *)
(* to the wavelengths; flux/(1+z) changes by less than the model's         *)
(* precision over the redshifts scanned.                                   *)
(***************************************************************************)
Template(name, lo, hi, flux) == [name |-> name, lo |-> lo, hi |-> hi, flux |-> flux]

\* the "complex" set of the grid scan and the set of individual lines
TComplex == <<Template("cont", -1000, 1000, 1), Template("line Ha+NII", -150, -100, 1)>>
TLines == <<Template("cont", -1000, 1000, 1), Template("line Ha", -150, -120, 1),
            Template("line NII", -119, -100, 2)>>

\* E.compute_model(spectrum_1d=s): the spectrum resampled on the unit's columns
\* (zero outside the template's wavelengths) through the kernel's response
ComputeModel(Ei, t, u) ==
    [k \in 1..Ei.size |->
        IF t.lo + u <= Ei.wavef[k] /\ Ei.wavef[k] <= t.hi + u
        THEN t.flux * Ei.flat[k] ELSE 0]

\* clip = E.ivar.sum(axis=0) > 0: the columns with weight
Clip(Ei) ==
    {c \in 1..Ei.sh[2] :
        SeqSum([r \in 1..Ei.sh[1] |-> Ei.ivarf[(r - 1) * Ei.sh[2] + c]]) > 0}

SetMax(S) == CHOOSE m \in S : \A x \in S : x <= m
SetMin(S) == CHOOSE m \in S : \A x \in S : m <= x

\* lines 481-487 for one template and one unit: the unit's slice of the
\* template's row, zero when the template lies outside the wavelengths w of
\* the unit's columns with weight
TemplateSlice(Ei, t, u, w) ==
    IF (t.lo + u > SetMax(w)) \/ (t.hi + u < SetMin(w))
    THEN [k \in 1..Ei.size |-> 0]
    ELSE ComputeModel(Ei, t, u)

\* E.wave[clip]
ClipWave(Ei) == {Ei.wave[c] : c \in Clip(Ei)}

\* lines 465-487: the template rows of A (NTEMP rows of Ndata columns);
\* E.wave[clip].max() of a unit without a column with weight raises
TemplateRows(o, templates, u) ==
    IF templates # <<>> /\ \E j \in 1..Len(o.E) : ClipWave(o.E[j]) = {}
    THEN RaisedAt(483)
    ELSE [raised |-> FALSE,
          rows |-> [i \in 1..Len(templates) |->
                      HStack([j \in 1..Len(o.E) |->
                          TemplateSlice(o.E[j], templates[i], u, ClipWave(o.E[j]))])]]

(***************************************************************************)
(* Linear algebra on small integer matrices (a matrix is a sequence of     *)
(* rows).                                                                  *)
(***************************************************************************)
Dot(a, b) == SeqSum([k \in 1..Len(a) |-> a[k] * b[k]])

\* (A * mask).sum(axis=1) != 0
OkTemp(A, mask) ==
    [r \in 1..Len(A) |->
        SeqSum([k \in 1..Len(mask) |-> IF mask[k] THEN A[r][k] ELSE 0]) # 0]

\* A * sivarf
TimesRows(A, sivarf) ==
    [r \in 1..Len(A) |-> [k \in 1..Len(sivarf) |-> A[r][k] * sivarf[k]]]

\* Ax[:, mask]
RECURSIVE CompressRows(_, _)
CompressRows(Ax, mask) ==
    IF Ax = <<>> THEN <<>>
    ELSE <<Compress(Head(Ax), mask)>> \o CompressRows(Tail(Ax), mask)

\* the matrix without row i and column j
Minor(M, i, j) ==
    [r \in 1..(Len(M) - 1) |->
        [c \in 1..(Len(M) - 1) |->
            M[IF r < i THEN r ELSE r + 1][IF c < j THEN c ELSE c + 1]]]

RECURSIVE Det(_)
Det(M) ==
    IF Len(M) = 0 THEN 1
    ELSE IF Len(M) = 1 THEN M[1][1]
    ELSE SeqSum([j \in 1..Len(M) |->
                    (IF j % 2 = 1 THEN 1 ELSE -1) * M[1][j] * Det(Minor(M, 1, j))])

\* np.dot(AxT.T, AxT) for AxT = rows.T
RECURSIVE GramRows(_, _)
GramRows(rows, all) ==
    IF rows = <<>> THEN <<>>
    ELSE <<[c \in 1..Len(all) |-> Dot(Head(rows), all[c])] \o <<>>>>
             \o GramRows(Tail(rows), all)

Gram(rows) == GramRows(rows, rows)

Zero == [num |-> 0, den |-> 1]

\* lines 510-518: covard.  np.matrix(G).I raises for a singular G and the
\* except branch reports zeros.  An uncertainty is held by its square, the
\* diagonal entry num/den of the inverse.
Covard(G) ==
    LET Inverse(d) ==
            IF d = 0 THEN [r \in 1..Len(G) |-> Zero]
            ELSE [r \in 1..Len(G) |-> [num |-> Det(Minor(G, r, r)), den |-> d]]
    IN  Inverse(Det(G))

(***************************************************************************)
(* The solvers, scipy.optimize.nnls and np.linalg.lstsq, on the grid of    *)
(* coefficients the model can hold: a vector that minimises                *)
(* |AxT c - data|^2 and, among those, has the least norm (what lstsq       *)
(* returns for a rank-deficient system).  nnls keeps every coefficient     *)
(* non-negative.                                                           *)
(***************************************************************************)
CoeffMax == 1

CoeffValues(fitter) == IF fitter = "nnls" THEN 0..CoeffMax ELSE (-CoeffMax)..CoeffMax

\* |AxT c - data|^2 over the pixels of the (compressed) rows
RNorm2(rows, data, c) ==
    SeqSum([k \in 1..Len(data) |->
        (SeqSum([r \in 1..Len(rows) |-> c[r] * rows[r][k]]) - data[k])
        * (SeqSum([r \in 1..Len(rows) |-> c[r] * rows[r][k]]) - data[k])])

Solve(fitter, rows, data) ==
    LET Least(D) ==
            LET Among(best) ==
                    LET Shortest(nmin) == CHOOSE c \in best : Dot(c, c) = nmin
                    IN  Shortest(SetMin({Dot(c, c) : c \in best}))
                Residual(rmin) == Among({c \in D : RNorm2(rows, data, c) = rmin})
            IN  Residual(SetMin({RNorm2(rows, data, c) : c \in D}))
    IN  Least([1..Len(rows) -> CoeffValues(fitter)])

(***************************************************************************)
(* StackFitter.fit_at_z, lines 460-526, at u = log(1+z).                   *)
(***************************************************************************)
pedestal == 1

\* x[mask] = v for an array v of Count(mask) entries, or of one entry that is
\* broadcast; x was zeros.  (ok = FALSE: the shapes do not match, numpy raises.)
MaskAssign(mask, v, zero) ==
    LET rank(j) == Count(SubSeq(mask, 1, j)) IN
    [ok |-> Len(v) = Count(mask) \/ Len(v) = 1,
     x |-> [j \in 1..Len(mask) |->
              IF ~mask[j] THEN zero
              ELSE IF Len(v) = 1 THEN v[1]
              ELSE IF rank(j) <= Len(v) THEN v[rank(j)] ELSE zero]]

\* line 507 and line 408: np.sum(resid[fit_mask]**2 * sivarf[fit_mask]**2)
Chi2Of(resid, fit_mask, sivarf) ==
    SeqSum([k \in 1..Len(fit_mask) |->
        IF fit_mask[k] THEN resid[k] * resid[k] * sivarf[k] * sivarf[k] ELSE 0])

\* lines 520-524 and 360-364: the coefficients and uncertainties of the kept
\* templates, at the places of the templates
FullCoeffs(Next_, NTEMP, oktemp, coeffs, covard) ==
    LET Kept(okt) ==
            [c |-> MaskAssign(okt, SubSeq(coeffs, Next_ + 1, Len(coeffs)), 0),
             e |-> MaskAssign(okt, SubSeq(covard, Next_ + 1, Len(covard)), Zero)]
    IN  Kept(SubSeq(oktemp, Next_ + 1, Next_ + NTEMP))

FitAtZ(o, u, templates, fitter, get_uncertainties) ==
    LET Model(A, oktemp, Akept, AxT, coeffs) ==
            LET Resid(background, full) ==
                    LET Scored(resid) ==
                            LET Returned(fc) ==
                                    IF ~fc.c.ok THEN RaisedAt(521)
                                    ELSE [raised |-> FALSE,
                                          chi2 |-> Chi2Of(resid, o.fit_mask, o.sivarf),
                                          background |-> background, full |-> full,
                                          coeffs |-> fc.c.x, err |-> fc.e.x]
                            IN  Returned(FullCoeffs(o.Next, Len(templates), oktemp, coeffs,
                                    IF get_uncertainties THEN Covard(Gram(AxT))
                                    ELSE [r \in 1..Len(Akept) |-> Zero]))
                    IN  Scored([k \in 1..o.Ndata |->
                                   IF IsFinite(full[k])
                                   THEN o.scif[k] - full[k] - background[k] ELSE NaN])
            IN  Resid([k \in 1..o.Ndata |->
                          SeqSum([i \in 1..o.Next |-> coeffs[i] * A[i][k]]) - pedestal],
                      [k \in 1..o.Ndata |->
                          IF Len(Akept) = o.Next THEN 0
                          ELSE IF o.sivarf[k] = 0 THEN NaN          \* Ax/self.sivarf
                          ELSE SeqSum([i \in 1..(Len(Akept) - o.Next) |->
                                  coeffs[o.Next + i] * Akept[o.Next + i][k]])])
        Solved(A, oktemp, Akept, AxT) ==
            IF Len(Akept) < o.Next
            THEN RaisedAt(503)            \* np.dot(coeffs[:Next], A[:Next,:])
            ELSE Model(A, oktemp, Akept, AxT,
                       Solve(fitter, AxT,
                             Compress([k \in 1..o.Ndata |->
                                          (o.scif[k] + pedestal) * o.sivarf[k]],
                                      o.fit_mask)))
        Kept(A, oktemp) ==
            LET Rows(Akept) ==
                    Solved(A, oktemp, Akept,
                           CompressRows(TimesRows(Akept, o.sivarf), o.fit_mask))
            IN  Rows(Compress(A, oktemp))
        Design(tr) ==
            IF tr.raised THEN tr
            ELSE IF Len(o.fit_mask) # o.Ndata THEN RaisedAt(489)  \* A*self.fit_mask
            ELSE LET Filtered(A) == Kept(A, OkTemp(A, o.fit_mask))
                 IN  Filtered(o.Abg \o tr.rows)
    IN  Design(TemplateRows(o, templates, u))

(***************************************************************************)
(* StackFitter.objective_scale, lines 384-415, for a constant scale        *)
(* polynomial (order = 0): the template rows of the spectra are multiplied *)
(* by scale = p[0]/10, the background rows and the photometry are not.     *)
(* Ax has the kept rows, times sivarf.                                     *)
(***************************************************************************)
ObjectiveScale(scale, Ax, data, fit_mask, sivarf, Nphot_, Next_) ==
    LET Scaled(AxT) ==
            LET Solved(coeffs) ==
                    LET Full(full) ==
                            LET Scored(resid) ==
                                    [coeffs |-> coeffs, full |-> full, resid |-> resid,
                                     chi2 |-> Chi2Of(resid, fit_mask, sivarf), AxT |-> AxT]
                            IN  Scored([k \in 1..Len(sivarf) |->
                                    IF sivarf[k] = 0 THEN NaN
                                    ELSE (data[k] \div sivarf[k]) - full[k]])
                    IN  Full([k \in 1..Len(sivarf) |->
                            IF sivarf[k] = 0 THEN NaN                 \* AxT/sivarf
                            ELSE SeqSum([r \in 1..Len(AxT) |->
                                    coeffs[r] * (AxT[r][k] \div sivarf[k])])])
            IN  Solved(Solve("nnls", CompressRows(AxT, fit_mask), Compress(data, fit_mask)))
    \* lines 392-398: Ax*scale, the scaling removed from the background rows
    IN  Scaled([r \in 1..Len(Ax) |->
                   [k \in 1..Len(sivarf) |->
                       IF r > Next_ /\ k <= Len(sivarf) - Nphot_ THEN Ax[r][k] * scale
                       ELSE Ax[r][k]]])

\* scipy.optimize.minimize over the scales the model can hold, started at
\* init = 10 (scale 1): the least chi2, the smallest such scale
ScaleValues == {1, 2}

Minimize(Ax, data, fit_mask, sivarf, Nphot_, Next_) ==
    LET Least(f) ==
            LET Found(fmin) == [x |-> SetMin({sc \in ScaleValues : f[sc] = fmin})]
            IN  Found(SetMin({f[sc] : sc \in ScaleValues}))
    IN  Least([sc \in ScaleValues |->
                  ObjectiveScale(sc, Ax, data, fit_mask, sivarf, Nphot_, Next_).chi2])

(***************************************************************************)
(* StackFitter.fit_combined_at_z, lines 275-366.  The templates and their  *)
(* fluxes through the filters (tempfilt) are the catalog's.                *)
(***************************************************************************)
FitCombinedAtZ(o, u, get_uncertainties, eazyp, scale_fit) ==
    LET Model(A, oktemp, K, sf1, os) ==
            LET Background(bg0) ==
                    LET Returned(fc) ==
                            IF ~fc.c.ok THEN RaisedAt(361)
                            ELSE [raised |-> FALSE, chi2 |-> os.chi2,
                                  background |-> [k \in 1..Len(bg0) |->
                                      IF k > o.Ndata THEN 0 ELSE bg0[k] - pedestal],
                                  full |-> [k \in 1..Len(bg0) |->
                                      IF IsFinite(os.full[k]) THEN os.full[k] - bg0[k]
                                      ELSE NaN],
                                  coeffs |-> fc.c.x, err |-> fc.e.x, scale_fit |-> sf1]
                    \* line 351 names ATA, which nothing defines: the NameError is
                    \* caught by the bare except, which zeroes covard
                    IN  Returned(FullCoeffs(o.Next, Len(eazyp.templates), oktemp,
                                            os.coeffs, [r \in 1..K |-> Zero]))
            IN  Background([k \in 1..Len(A[1]) |->
                               SeqSum([i \in 1..o.Next |-> os.coeffs[i] * A[i][k]])])
        Scaled(A, oktemp, fit_mask, sivarf, Nphot_, Ax, data) ==
            IF Len(Ax) < o.Next THEN RaisedAt(398)          \* AxT[i,:] /= scale
            ELSE LET Optimized(sf1) ==
                         Model(A, oktemp, Len(Ax), sf1,
                               ObjectiveScale(sf1.x, Ax, data, fit_mask, sivarf,
                                              Nphot_, o.Next))
                 IN  Optimized(IF scale_fit = None
                               THEN Minimize(Ax, data, fit_mask, sivarf, Nphot_, o.Next)
                               ELSE scale_fit)
        Kept(A, fit_mask, sivarf, Nphot_, dataf) ==
            LET Filtered(oktemp) ==
                    Scaled(A, oktemp, fit_mask, sivarf, Nphot_,
                           TimesRows(Compress(A, oktemp), sivarf),
                           [k \in 1..Len(sivarf) |-> dataf[k] * sivarf[k]])
            IN  Filtered(OkTemp(A, fit_mask))
        Design(ok_phot, Nphot_, tr) ==
            IF Nphot_ = 0 THEN RaisedAt(290)         \* A[:Next,:-0] += Abg
            ELSE IF tr.raised THEN RaisedAt(309)
            ELSE IF Len(o.fit_mask) # o.Ndata THEN RaisedAt(315)   \* A*fit_mask
            ELSE Kept([r \in 1..(o.Next + Len(eazyp.templates)) |->
                          IF r <= o.Next THEN o.Abg[r] \o [b \in 1..Nphot_ |-> 0]
                          ELSE tr.rows[r - o.Next]
                               \o Compress(eazyp.tempfilt[r - o.Next], ok_phot)],
                      o.fit_mask \o [b \in 1..Nphot_ |-> TRUE],
                      o.sivarf \o [b \in 1..Nphot_ |->
                                      1 \div Compress(eazyp.efnu, ok_phot)[b]],
                      Nphot_,
                      [k \in 1..o.Ndata |-> o.scif[k] + pedestal]
                          \o Compress(eazyp.fnu, ok_phot))
        Photometry(ok_phot) ==
            Design(ok_phot, Count(ok_phot), TemplateRows(o, eazyp.templates, u))
    IN  IF eazyp = None THEN RaisedAt(278)       \* eazyp.efnu of None
        ELSE Photometry(OkPhot(eazyp))

(***************************************************************************)
(* The redshift grids of fit_zgrid.                                        *)
(***************************************************************************)
\* grizli.utils.log_zgrid(zr, dz) = exp(arange(log(1+zr[0]), log(1+zr[1]), dz)) - 1
\* on the log(1+z) axis: lo, lo+dz, ... below hi
LogZgrid(lo, hi, dz) ==
    IF hi <= lo THEN <<>>
    ELSE [i \in 1..(((hi - lo - 1) \div dz) + 1) |-> lo + (i - 1) * dz]

\* 2.02**iter, times 10^4
Pow202x == <<20200, 40804, 82424, 166497, 336323, 679373>>

\* line 600: dz = dz0/2.02**iter
RefineStep(dz0, iter) == (dz0 * 10000) \div Pow202x[iter]

\* line 601: log_zgrid([z0-dz*4, z0+dz*4], dz).  4*dz in z is 4*dz/(1+z0) on
\* the log axis; S10 is 1+z in tenths, constant over the few steps of a scan.
RefineZgrid(u0, dz, S10) ==
    LogZgrid(u0 - ((4 * dz * 10) \div S10), u0 + ((4 * dz * 10) \div S10), dz)

\* np.interp(x, xp, fp): linear between the nodes, constant outside them
Interp(x, xp, fp) ==
    IF x <= xp[1] THEN fp[1]
    ELSE IF x >= xp[Len(xp)] THEN fp[Len(xp)]
    ELSE LET j == CHOOSE j \in 1..(Len(xp) - 1) : xp[j] <= x /\ x < xp[j + 1]
         IN  fp[j] + ((fp[j + 1] - fp[j]) * (x - xp[j])) \div (xp[j + 1] - xp[j])

\* np.argmax, in the place of np.argmin
ArgMax(c) ==
    CHOOSE i \in 1..Len(c) :
        /\ \A j \in 1..Len(c) : c[i] >= c[j]
        /\ \A j \in 1..(i - 1) : c[j] < c[i]

\* np.argmin: the first index of the least entry
ArgMin(c) ==
    CHOOSE i \in 1..Len(c) :
        /\ \A j \in 1..Len(c) : c[i] <= c[j]
        /\ \A j \in 1..(i - 1) : c[j] > c[i]

\* the indices of z as they are, in the place of np.argsort
InputOrder(z) == [n \in 1..Len(z) |-> n]

\* np.argsort(z): the indices of z, by value; equal values keep their order
ArgSort(z) ==
    LET pos(i) == Cardinality({j \in 1..Len(z) : z[j] < z[i] \/ (z[j] = z[i] /\ j < i)}) + 1
    IN  [n \in 1..Len(z) |-> CHOOSE i \in 1..Len(z) : pos(i) = n]

\* a variant of lines 624-625 that repeats the first point of the order
TakeFirst(z, so) == [n \in 1..Len(so) |-> z[so[1]]]

\* z[so]
Take(z, so) == [n \in 1..Len(so) |-> z[so[n]]]

\* a variant of lines 592-596 and 628-630 that leaves the prior out
WithoutPrior(prior, z, chi2) == chi2

\* ci + pz, lines 592-596 and 628-630
WithPrior(prior, z, chi2) ==
    IF prior = None THEN chi2
    ELSE [i \in 1..Len(z) |-> chi2[i] + Interp(z[i], prior.z, prior.p)]

\* np.trapz(y, z), doubled
Trapz2(y, z) ==
    SeqSum([i \in 1..(Len(z) - 1) |-> (y[i] + y[i + 1]) * (z[i + 1] - z[i])])

\* lines 657-659: area25 = 1 - num/denom, as the fraction num/den
Area25(z, chi2) ==
    LET Clipped(cmin) ==
            LET Ratio(num, denom) ==
                    IF denom = 0 THEN [num |-> NaN, den |-> 1]
                    ELSE [num |-> denom - num, den |-> denom]
            IN  Ratio(Trapz2([i \in 1..Len(z) |->
                                 IF chi2[i] - cmin > 25 THEN 25 ELSE chi2[i] - cmin], z),
                      Trapz2([i \in 1..Len(z) |-> 25], z))
    IN  Clipped(chi2[ArgMin(chi2)])

\* a synthetic chi2 curve in the place of the fits: it falls to zt and rises
\* after it
MockChi2(m, u) == IF u < m.zt THEN m.sl * (m.zt - u) ELSE m.sr * (u - m.zt)

\* one evaluation of the scan, lines 578-583 and 605-610
ScanFit(o, za, u, fitter, scale_fit) ==
    LET Value(r, sc) ==
            IF r.raised THEN r
            ELSE [raised |-> FALSE, chi2 |-> r.chi2,
                  scale_fit |-> IF sc THEN r.scale_fit ELSE scale_fit]
    IN  IF za.mock # None
        THEN [raised |-> FALSE, chi2 |-> MockChi2(za.mock, u), scale_fit |-> scale_fit]
        ELSE IF za.eazyp # None
        THEN Value(FitCombinedAtZ(o, u, FALSE, za.eazyp, scale_fit), TRUE)
        ELSE Value(FitAtZ(o, u, TComplex, fitter, FALSE), FALSE)

\* line 633: the fit with the individual line templates
FinalFit(o, za, u) ==
    IF za.mock # None
    THEN [raised |-> FALSE, chi2 |-> MockChi2(za.mock, u),
          background |-> [k \in 1..Len(o.scif) |-> 0],
          full |-> [k \in 1..Len(o.scif) |-> 0],
          coeffs |-> [t \in 1..Len(TLines) |-> 0],
          err |-> [t \in 1..Len(TLines) |-> Zero]]
    ELSE FitAtZ(o, u, TLines, za.fitter, TRUE)

\* lines 636-638: outlier_mask
OutlierMask(o, fullz, bgz, threshold) ==
    [k \in 1..Len(o.scif) |->
        /\ IsFinite(fullz[k])
        /\ (o.scif[k] - fullz[k] - bgz[k]) * o.sivarf[k] < threshold]

(***************************************************************************)
(* The program: a caller that opens a stack file, constructs the           *)
(* StackFitter and calls its methods.                                      *)
(***************************************************************************)
\* a catalog with two accepted bands and one that was not observed
CatA == [fnu |-> <<1, -99, 2>>, efnu |-> <<1, 1, 1>>, lc |-> <<50, 90, 200>>,
         templates |-> TComplex, tempfilt |-> <<<<1, 1, 1>>, <<0, 0, 1>>>>]

\* a catalog whose only band was not observed: no band is accepted
CatNotObserved == [fnu |-> <<-99>>, efnu |-> <<1>>, lc |-> <<50>>,
                   templates |-> TComplex, tempfilt |-> <<<<1>>, <<1>>>>]

NoObject == RaisedAt(0)
NoRun == [active |-> FALSE]

Files ==
    UNION {{StackFile(us, n1) : n1 \in 1..Min2(2, Len(us))} :
              us \in SeqsUpTo(ExtLib, MaxExt)}

\* StackFitter(file, fit_stacks, eazyp=eazyp): the overlap threshold is the
\* constructor's 3
CArgs(fit_stacks, eazyp) ==
    [fit_stacks |-> fit_stacks, overlap_threshold |-> 3, eazyp |-> eazyp]

\* fit_zgrid(dz0, zr, fitter, prior, outlier_threshold, eazyp, scale_fit = None);
\* S10 is the redshift of the scan, 1+z in tenths; mock, when it is not None,
\* replaces the fits by a synthetic chi2 curve
ZArgs(zr, dz0, S10, fitter, prior, outlier_threshold, eazyp, mock) ==
    [zr |-> zr, dz0 |-> dz0, S10 |-> S10, fitter |-> fitter, prior |-> prior,
     outlier_threshold |-> outlier_threshold, eazyp |-> eazyp, mock |-> mock]

\* a prior that rises with redshift
PriorUp == [z |-> <<0, 400>>, p |-> <<0, 400>>]

\* scans of the objects' data: spectra alone over two ranges, and with the
\* catalog
ZArgsOfObjects ==
    {ZArgs(<<0, 136>>, 68, 40, "lstsq", None, 3, None, None),
     ZArgs(<<60, 196>>, 68, 40, "lstsq", None, 0, None, None),
     ZArgs(<<60, 196>>, 68, 40, "nnls", PriorUp, 0, CatA, None)}

\* a synthetic curve: its minimum at zt, its slopes sl before and sr after it
Curve(zt, sl, sr) == [zt |-> zt, sl |-> sl, sr |-> sr]

\* scans of synthetic curves, at redshifts 0, 1, 2 and 3, and with the prior
ZArgsOfCurves ==
    {ZArgs(<<100, 300>>, 68, S10, "nnls", None, 0, None, Curve(zt, s[1], s[2])) :
        S10 \in {10, 20, 30, 40},
        zt \in {0, 100, 137, 231, 299, 300, 700},
        s \in {<<1, 1>>, <<1, 5>>, <<7, 1>>}}
    \cup {ZArgs(<<100, 300>>, 68, 20, "nnls", PriorUp, 0, None, Curve(zt, s[1], s[2])) :
        zt \in {137, 231},
        s \in {<<1, 1>>, <<1, 5>>, <<7, 1>>}}

\* the calls the caller may make: any file with the scans of data, one file
\* with the scans of synthetic curves
Scenarios ==
    {[hdu |-> f, cargs |-> CArgs(fs, cat), zargs |-> za] :
        f \in Files, fs \in BOOLEAN, cat \in {None, CatA}, za \in ZArgsOfObjects}
    \cup {[hdu |-> StackFile(<<ExtA, ExtC>>, 1), cargs |-> CArgs(TRUE, None), zargs |-> za] :
            za \in ZArgsOfCurves}

Init ==
    /\ \E s \in Scenarios :
          /\ s.cargs.fit_stacks => Len(s.hdu.h0.pas[1]) = 1
          /\ hdu = s.hdu
          /\ cargs = s.cargs
          /\ zargs = s.zargs
    /\ pc = "new"
    /\ sf = NoObject
    /\ ncalls = 0
    /\ run = NoRun
    /\ out = None

\* sf = StackFitter(file, ...): the object, or an exception and no object
New ==
    /\ pc = "new"
    /\ sf' = StackFitterInit(hdu, cargs)
    /\ pc' = IF sf'.raised THEN "noobj" ELSE "idle"
    /\ UNCHANGED <<hdu, cargs, zargs, ncalls, run, out>>

(***************************************************************************)
(* Calls on the object.                                                    *)
(***************************************************************************)
\* sf.mask_drizzle_overlaps(threshold): narrows the units' masks (not the
\* joint mask), or raises and changes nothing
CallMaskDrizzleOverlaps ==
    /\ pc = "idle"
    /\ ncalls < MaxCalls
    /\ \E threshold \in {1, 3} :
          \E r \in {MaskDrizzleOverlaps(sf.grisms, sf.E, threshold)} :
              /\ sf' = IF r.raised THEN sf ELSE [sf EXCEPT !.E = r.E]
              /\ out' = [call |-> "mask_drizzle_overlaps", raised |-> r.raised]
    /\ ncalls' = ncalls + 1
    /\ pc' = "ret"
    /\ UNCHANGED <<hdu, cargs, zargs, run>>

\* sf.fit_at_z(z, templates, fitter, get_uncertainties)
CallFitAtZ ==
    /\ pc = "idle"
    /\ \E u \in {120}, templates \in {TLines},
          fitter \in {"nnls", "lstsq"}, get_uncertainties \in BOOLEAN :
          out' = [call |-> "fit_at_z", z |-> u, templates |-> templates,
                  fitter |-> fitter, get_uncertainties |-> get_uncertainties,
                  res |-> FitAtZ(sf, u, templates, fitter, get_uncertainties)]
    /\ pc' = "ret"
    /\ UNCHANGED <<hdu, cargs, sf, zargs, ncalls, run>>

\* sf.fit_combined_at_z(z, get_uncertainties, eazyp, order = 0, scale_fit)
CallFitCombinedAtZ ==
    /\ pc = "idle"
    /\ \E u \in {120}, get_uncertainties \in BOOLEAN,
          eazyp \in {None, CatA, CatNotObserved}, scale_fit \in {None} :
          out' = [call |-> "fit_combined_at_z", z |-> u, eazyp |-> eazyp,
                  scale_fit |-> scale_fit, get_uncertainties |-> get_uncertainties,
                  res |-> FitCombinedAtZ(sf, u, get_uncertainties, eazyp, scale_fit)]
    /\ pc' = "ret"
    /\ UNCHANGED <<hdu, cargs, sf, zargs, ncalls, run>>

\* the caller takes the result of the call and is ready for the next one
Return ==
    /\ pc = "ret"
    /\ pc' = "idle"
    /\ out' = None
    /\ run' = NoRun
    /\ UNCHANGED <<hdu, cargs, sf, zargs, ncalls>>

(***************************************************************************)
(* sf.fit_zgrid(...), lines 573-759, one step per fit.  run.log lists the  *)
(* phases entered: 0 the coarse scan, 1..6 the refinement iterations, 7    *)
(* the final fit and the output.  run.evals lists the fits made.           *)
(***************************************************************************)
\* the call ends by the exception r
Abort(r) ==
    /\ pc' = "ret"
    /\ out' = [call |-> "fit_zgrid", raised |-> TRUE, line |-> r.line, log |-> run'.log]

\* lines 573-576
ZgridStart ==
    /\ pc = "idle"
    /\ ncalls < MaxCalls
    /\ ncalls' = ncalls + 1
    /\ \E z \in {LogZgrid(zargs.zr[1], zargs.zr[2], zargs.dz0)} :
          /\ run' = [active |-> TRUE, z |-> z, chi2 |-> <<>>, zi |-> z, ci |-> <<>>,
                     iter |-> 0, scale_fit |-> None, log |-> <<0>>, evals |-> <<>>]
          /\ pc' = IF z = <<>> THEN "grid" ELSE "coarse"
    /\ out' = None
    /\ UNCHANGED <<hdu, cargs, sf, zargs>>

\* one fit of the scan at run.zi[i], by fitter, recorded
ScanStep(i, fitter, r) ==
    [run EXCEPT !.ci = Append(@, r.chi2),
                !.scale_fit = r.scale_fit,
                !.evals = Append(@, [iter |-> run.iter, z |-> run.zi[i], chi2 |-> r.chi2,
                                     fitter |-> fitter, scale_fit |-> r.scale_fit])]

\* lines 577-586, one pass of the loop; after the last one, lines 589-590
CoarseFit ==
    /\ pc = "coarse"
    /\ \E i \in {Len(run.ci) + 1} :
         \E r \in {ScanFit(sf, zargs, run.zi[i], "nnls", run.scale_fit)} :
           IF r.raised
           THEN /\ run' = run
                /\ Abort(r)
           ELSE /\ run' = [ScanStep(i, "nnls", r) EXCEPT !.chi2 = Append(@, r.chi2)]
                /\ pc' = IF i = Len(run.zi) THEN "grid" ELSE "coarse"
                /\ out' = out
    /\ UNCHANGED <<hdu, cargs, sf, zargs, ncalls>>

\* lines 591-602: the next refinement grid, around the minimum of the last one
RefineGrid ==
    /\ pc = "grid"
    /\ \E iter \in {run.iter + 1} :
           IF run.ci = <<>>
           THEN /\ run' = [run EXCEPT !.iter = iter, !.log = Append(@, iter)]
                /\ Abort(RaisedAt(598))                \* np.argmin of nothing
           ELSE \E z0 \in {run.zi[ArgMin(WithPrior(zargs.prior, run.zi, run.ci))]} :
                \E zi \in {RefineZgrid(z0, RefineStep(zargs.dz0, iter), zargs.S10)} :
                    /\ run' = [run EXCEPT !.iter = iter, !.log = Append(@, iter),
                                          !.zi = zi, !.ci = <<>>]
                    /\ pc' = IF zi # <<>> THEN "refine"
                             ELSE IF iter = 6 THEN "finalize" ELSE "grid"
                    /\ out' = out
    /\ UNCHANGED <<hdu, cargs, sf, zargs, ncalls>>

\* lines 603-618, one pass of the loop; after the last one, lines 620-621
RefineFit ==
    /\ pc = "refine"
    /\ \E i \in {Len(run.ci) + 1} :
         \E r \in {ScanFit(sf, zargs, run.zi[i], zargs.fitter, run.scale_fit)} :
           IF r.raised
           THEN /\ run' = run
                /\ Abort(r)
           ELSE \E step \in {ScanStep(i, zargs.fitter, r)} :
                    /\ run' = IF i < Len(run.zi) THEN step
                              ELSE [step EXCEPT !.z = @ \o step.zi,
                                                !.chi2 = @ \o step.ci]
                    /\ pc' = IF i < Len(run.zi) THEN "refine"
                             ELSE IF run.iter = 6 THEN "finalize" ELSE "grid"
                    /\ out' = out
    /\ UNCHANGED <<hdu, cargs, sf, zargs, ncalls>>

\* a variant of line 636 that applies the outlier mask whatever the
\* threshold is
MaskAlways(o, r, threshold) ==
    LET Masked(fit_mask) ==
            [o EXCEPT !.fit_mask = fit_mask, !.DoF = DoFOf(fit_mask, o.weightf)]
    IN  Masked(AndMask(o.fit_mask, OutlierMask(o, r.full, r.background, threshold)))

\* lines 636-646: self.fit_mask and self.DoF after the outlier mask
MaskOutliers(o, r, threshold) ==
    IF threshold > 0
    THEN LET Masked(fit_mask) ==
                 [o EXCEPT !.fit_mask = fit_mask, !.DoF = DoFOf(fit_mask, o.weightf)]
         IN  Masked(AndMask(o.fit_mask, OutlierMask(o, r.full, r.background, threshold)))
    ELSE o

\* lines 648-675: the table and its metadata
ZgridTable(z, chi2, DoF, za) ==
    [z |-> z, chi2 |-> chi2,
     Z |-> z[ArgMin(chi2)], CHIMIN |-> chi2[ArgMin(chi2)], DOF |-> DoF,
     AREA25 |-> Area25(z, chi2), FITTER |-> za.fitter, HASPRIOR |-> za.prior # None]

\* lines 623-759: the sorted curve, the fit at the best redshift, the outlier
\* mask and the output
Finalize ==
    /\ pc = "finalize"
    /\ run' = [run EXCEPT !.log = Append(@, 7)]
    /\ \E so \in {ArgSort(run.z)} :
       \E z \in {Take(run.z, so)} :
       \E chi2 \in {WithPrior(zargs.prior, z, Take(run.chi2, so))} :
           IF z = <<>>
           THEN /\ Abort(RaisedAt(633))                \* np.argmin of nothing
                /\ sf' = sf
           ELSE \E zfit \in {z[ArgMin(chi2)]} :
                \E r \in {FinalFit(sf, zargs, zfit)} :
                    IF r.raised
                    THEN /\ Abort(r)
                         /\ sf' = sf
                    ELSE /\ sf' = MaskOutliers(sf, r, zargs.outlier_threshold)
                         /\ pc' = "ret"
                         /\ out' = [call |-> "fit_zgrid", raised |-> FALSE,
                                    table |-> ZgridTable(z, chi2, sf'.DoF, zargs),
                                    zfit |-> zfit, coeffs |-> r.coeffs, err |-> r.err,
                                    log |-> run'.log, evals |-> run.evals]
    /\ UNCHANGED <<hdu, cargs, zargs, ncalls>>

Next ==
    \/ New
    \/ CallMaskDrizzleOverlaps
    \/ CallFitAtZ
    \/ CallFitCombinedAtZ
    \/ Return
    \/ ZgridStart
    \/ CoarseFit
    \/ RefineGrid
    \/ RefineFit
    \/ Finalize

Spec == Init /\ [][Next]_vars

(***************************************************************************)
(* Properties of the masks.                                                *)
(***************************************************************************)
\* every true entry of new is a true entry of old
NoGain(old, new) ==
    /\ Len(new) = Len(old)
    /\ \A k \in 1..Len(old) : new[k] => old[k]

\* C1: once the StackFitter is constructed, no call (fit_at_z,
\* fit_combined_at_z, fit_zgrid with any outlier threshold, or
\* mask_drizzle_overlaps) turns a false entry of the joint fit_mask or of a
\* unit's fit_mask into true.
C1_FitMaskNeverWidens ==
    [][~sf.raised =>
          /\ ~sf'.raised
          /\ NoGain(sf.fit_mask, sf'.fit_mask)
          /\ Len(sf'.E) = Len(sf.E)
          /\ \A i \in 1..Len(sf.E) : NoGain(sf.E[i].fit_mask, sf'.E[i].fit_mask)]_vars

\* C1's case: after two calls both the joint mask and a unit's mask hold
\* fewer pixels than the constructor left them
C1_MasksNarrowed ==
    /\ pc = "idle"
    /\ ncalls = 2
    /\ \E k \in 1..Len(sf.fit_mask) :
          StackFitterInit(hdu, cargs).fit_mask[k] /\ ~sf.fit_mask[k]
    /\ \E i \in 1..Len(sf.E) : \E k \in 1..sf.E[i].size :
          StackFitterInit(hdu, cargs).E[i].fit_mask[k] /\ ~sf.E[i].fit_mask[k]

(***************************************************************************)
(* Properties of the constructed object.                                   *)
(***************************************************************************)
\* the number of joint pixels that come before unit i
SizeBefore(E, i) == SeqSum([j \in 1..(i - 1) |-> E[j].size])

\* the k-th joint pixel is one of unit i
Owns(E, i, k) == SizeBefore(E, i) < k /\ k <= SizeBefore(E, i) + E[i].size

\* C2: for Next >= 1 retained units, Abg has one row per unit, only entries
\* 0 and 1, and each of the Ndata spectroscopic columns is 1 in the row of
\* the unit that owns the pixel and 0 in every other row.
C2_BackgroundPartition ==
    (~sf.raised /\ sf.Next >= 1) =>
        /\ Len(sf.Abg) = sf.Next
        /\ Len(sf.E) = sf.Next
        /\ \A i \in 1..sf.Next :
              /\ Len(sf.Abg[i]) = sf.Ndata
              /\ \A k \in 1..sf.Ndata :
                    /\ sf.Abg[i][k] \in {0, 1}
                    /\ sf.Abg[i][k] = 1 <=> Owns(sf.E, i, k)
        /\ \A k \in 1..sf.Ndata :
              Cardinality({i \in 1..sf.Next : sf.Abg[i][k] = 1}) = 1

\* C2's case: two units of different sizes
C2_TwoUnits ==
    /\ ~sf.raised
    /\ sf.Next = 2
    /\ sf.E[1].size = 2
    /\ sf.E[2].size = 3
    /\ sf.Abg = <<<<1, 1, 0, 0, 0>>, <<0, 0, 1, 1, 1>>>>

\* C3: the slice map has one range per retained unit, in order; the first
\* starts at 0, each starts where the one before ends, range i has the
\* length E[i].size and the last ends at Ndata.
C3_SlicesContiguous ==
    ~sf.raised =>
        /\ Len(sf.slices) = sf.Next
        /\ Len(sf.E) = sf.Next
        /\ sf.Next >= 1 => sf.slices[1].start = 0 /\ sf.slices[sf.Next].stop = sf.Ndata
        /\ \A i \in 1..sf.Next : sf.slices[i].stop - sf.slices[i].start = sf.E[i].size
        /\ \A i \in 1..(sf.Next - 1) : sf.slices[i + 1].start = sf.slices[i].stop

\* C3's case: a unit of three pixels before one of two
C3_TwoRanges ==
    /\ ~sf.raised
    /\ sf.Next = 2
    /\ sf.E[1].size = 3
    /\ sf.slices = <<[start |-> 0, stop |-> 3], [start |-> 3, stop |-> 5]>>

\* the exposure d's kernel sum is not finite: line 135 leaves it out
Degenerate(d) == ~IsFinite(FSum(NormKernel(d.kernel)))

\* the names of the file's extensions that line 135 keeps, in the file's order
RetainedNames ==
    Compress(ExtList(hdu.h0, cargs.fit_stacks),
             [i \in 1..Len(ExtList(hdu.h0, cargs.fit_stacks)) |->
                 ~Degenerate(hdu.data[ExtList(hdu.h0, cargs.fit_stacks)[i]])])

\* C9: a degenerate unit is left out without an exception (other than the one
\* of mask_drizzle_overlaps for units of different sizes, line 800): E, ext,
\* the slices and the rows of Abg have Next entries, those of the other units
\* in their order, and ext[i] names E[i].
C9_DegenerateExcluded ==
    (pc # "new" /\ Len(RetainedNames) < Len(ExtList(hdu.h0, cargs.fit_stacks))) =>
        IF sf.raised THEN sf.line = 800
        ELSE /\ sf.Next = Len(RetainedNames)
             /\ sf.ext = RetainedNames
             /\ Len(sf.E) = sf.Next
             /\ Len(sf.slices) = sf.Next
             /\ Len(sf.Abg) = sf.Next
             /\ \A i \in 1..sf.Next : sf.E[i].extver = sf.ext[i]

(***************************************************************************)
(* Properties of fit_zgrid.                                                *)
(***************************************************************************)
\* the call of fit_zgrid has ended, with a table
ZgridDone == pc = "ret" /\ out.call = "fit_zgrid" /\ ~out.raised

Abs(x) == IF x < 0 THEN -x ELSE x

\* C4, as the specification states it: for a unimodal curve and no prior the
\* redshift selected lies within one coarse step of the curve's minimum.
C4_WithinCoarseStepOfAnyMinimum ==
    (ZgridDone /\ zargs.mock # None /\ zargs.prior = None) =>
        Abs(out.table.Z - zargs.mock.zt) <= zargs.dz0

\* C4, amended: for a unimodal curve whose minimum lies in the scanned range
\* zr and no prior, the redshift selected lies within one coarse step of it.
C4_WithinCoarseStep ==
    (/\ ZgridDone /\ zargs.mock # None /\ zargs.prior = None
     /\ zargs.zr[1] <= zargs.mock.zt /\ zargs.mock.zt <= zargs.zr[2]) =>
        Abs(out.table.Z - zargs.mock.zt) <= zargs.dz0

\* C4's case: the minimum lies between two coarse points and the refinement
\* has found it
C4_MinimumFound ==
    /\ ZgridDone /\ zargs.mock # None /\ zargs.prior = None
    /\ zargs.mock.zt = 137
    /\ out.table.Z = 137
    /\ \A e \in 1..Len(out.evals) : out.evals[e].iter = 0 => out.evals[e].z # 137

\* the phases of a run, in order
Phases == <<0, 1, 2, 3, 4, 5, 6, 7>>

IsPrefix(s, t) == Len(s) <= Len(t) /\ s = SubSeq(t, 1, Len(s))

\* C5: every run of fit_zgrid enters the phases in the order coarse scan
\* (one fit per coarse grid point), refinements 1 to 6, FINALIZE, once each,
\* and then ends.
C5_PhasesInOrder ==
    /\ run.active => IsPrefix(run.log, Phases)
    /\ (pc = "ret" /\ out.call = "fit_zgrid") =>
          /\ ~out.raised
          /\ out.log = Phases
          /\ [e \in 1..Len(LogZgrid(zargs.zr[1], zargs.zr[2], zargs.dz0)) |-> out.evals[e].z]
                = LogZgrid(zargs.zr[1], zargs.zr[2], zargs.dz0)
          /\ \A e \in 1..Len(out.evals) :
                out.evals[e].iter = 0
                    <=> e <= Len(LogZgrid(zargs.zr[1], zargs.zr[2], zargs.dz0))

\* the prior at redshift u
PriorAt(prior, u) == IF prior = None THEN 0 ELSE Interp(u, prior.z, prior.p)

\* C6: the best redshift minimises chi2 (plus the prior) over all the fits of
\* the coarse grid and the six refinement grids; the final fit, with the
\* line templates and with uncertainties, is made at that redshift, which
\* is the Z of the output.
C6_BestRedshift ==
    [][(pc = "finalize" /\ pc' = "ret" /\ ~out'.raised) =>
          /\ out'.zfit = out'.table.Z
          /\ \E e \in 1..Len(run.evals) :
                /\ run.evals[e].z = out'.table.Z
                /\ \A d \in 1..Len(run.evals) :
                      run.evals[e].chi2 + PriorAt(zargs.prior, run.evals[e].z)
                        <= run.evals[d].chi2 + PriorAt(zargs.prior, run.evals[d].z)
          /\ zargs.mock = None =>
                /\ out'.coeffs = FitAtZ(sf, out'.table.Z, TLines, zargs.fitter, TRUE).coeffs
                /\ out'.err = FitAtZ(sf, out'.table.Z, TLines, zargs.fitter, TRUE).err]_vars

\* C6's case: with a prior, the best redshift is one of a refinement grid
\* and is not where chi2 alone is least
C6_PriorMovesBest ==
    /\ ZgridDone /\ out.table.HASPRIOR
    /\ \E e \in 1..Len(out.evals) :
          /\ out.evals[e].z = out.table.Z
          /\ out.evals[e].iter > 0
          /\ \E d \in 1..Len(out.evals) : out.evals[d].chi2 < out.evals[e].chi2

\* C7, as the specification states it: the stored curve is strictly
\* increasing in redshift.
C7_StrictlyIncreasing ==
    ZgridDone =>
        \A n \in 1..(Len(out.table.z) - 1) : out.table.z[n] < out.table.z[n + 1]

\* C7, amended: the stored curve holds every fit of the run, sorted by
\* redshift; the redshifts that several grids share appear once for each.
C7_SortedWithRepeats ==
    ZgridDone =>
        /\ \A n \in 1..(Len(out.table.z) - 1) : out.table.z[n] <= out.table.z[n + 1]
        /\ Len(out.table.z) = Len(out.evals)
        /\ Len(out.table.chi2) = Len(out.evals)
        /\ \A u \in {out.evals[e].z : e \in 1..Len(out.evals)} :
              Cardinality({n \in 1..Len(out.table.z) : out.table.z[n] = u})
                = Cardinality({e \in 1..Len(out.evals) : out.evals[e].z = u})

\* C7's case: a refinement grid has fitted a redshift again, and the curve
\* holds it twice
C7_RepeatedRedshift ==
    /\ ZgridDone
    /\ \E n \in 1..(Len(out.table.z) - 1) : out.table.z[n] = out.table.z[n + 1]

\* C8: the chi2 of a fit of the scan is that of the fit at its redshift
\* alone, whatever was fitted before it.
C8_IndependentEvaluations ==
    (pc \in {"coarse", "grid", "refine", "finalize"} /\ run.evals # <<>>) =>
        run.evals[Len(run.evals)].chi2
          = ScanFit(sf, zargs, run.evals[Len(run.evals)].z,
                    run.evals[Len(run.evals)].fitter, None).chi2

(***************************************************************************)
(* Properties of the uncertainties.                                        *)
(***************************************************************************)
\* the adjugate of G: G times it is Det(G) times the identity
Adjugate(G) ==
    [i \in 1..Len(G) |-> [j \in 1..Len(G) |->
        (IF (i + j) % 2 = 0 THEN 1 ELSE -1) * Det(Minor(G, j, i))]]

\* X is the inverse of G, times d
IsInverseTimes(G, X, d) ==
    \A i \in 1..Len(G) : \A j \in 1..Len(G) :
        SeqSum([k \in 1..Len(G) |-> G[i][k] * X[k][j]]) = IF i = j THEN d ELSE 0

\* the uncertainties err of the templates are those of the weighted design
\* AxT (its kept rows, on the pixels of the mask): the diagonal of the
\* inverse of its Gram matrix for the templates kept, zero when the matrix
\* is singular
ErrOfDesign(err, AxT, okt, Next_) ==
    LET Inverse(G, d) ==
            /\ IsInverseTimes(G, Adjugate(G), d)
            /\ \A t \in 1..Len(okt) :
                  okt[t] =>
                     IF d = 0 THEN err[t].num = 0
                     ELSE err[t].num * d
                            = Adjugate(G)[Next_ + Count(SubSeq(okt, 1, t))]
                                         [Next_ + Count(SubSeq(okt, 1, t))] * err[t].den
        OfGram(G) == Inverse(G, Det(G))
    IN  OfGram(Gram(AxT))

\* the design of the spectra, lines 461-487
DesignOfFitAtZ(o, u, templates) == o.Abg \o TemplateRows(o, templates, u).rows

\* the design of the spectra and the photometry, lines 289-313
DesignOfFitCombinedAtZ(o, u, eazyp) ==
    [r \in 1..(o.Next + Len(eazyp.templates)) |->
        IF r <= o.Next THEN o.Abg[r] \o [b \in 1..Count(OkPhot(eazyp)) |-> 0]
        ELSE TemplateRows(o, eazyp.templates, u).rows[r - o.Next]
             \o Compress(eazyp.tempfilt[r - o.Next], OkPhot(eazyp))]

\* C10: with uncertainties asked for, fit_at_z and fit_combined_at_z report
\* for each template kept the square root of its diagonal entry of the
\* inverse of (weighted design)^T (weighted design), and zero for every
\* template when the matrix is singular; without, they report zeros.
C10_Uncertainties ==
    /\ (pc = "ret" /\ out.call = "fit_at_z" /\ ~out.res.raised) =>
          IF ~out.get_uncertainties
          THEN \A t \in 1..Len(out.res.err) : out.res.err[t].num = 0
          ELSE LET Design(A, oktemp) ==
                       ErrOfDesign(out.res.err,
                           CompressRows(TimesRows(Compress(A, oktemp), sf.sivarf),
                                        sf.fit_mask),
                           SubSeq(oktemp, sf.Next + 1, Len(oktemp)), sf.Next)
                   Of(A) == Design(A, OkTemp(A, sf.fit_mask))
               IN  Of(DesignOfFitAtZ(sf, out.z, out.templates))
    /\ (pc = "ret" /\ out.call = "fit_combined_at_z" /\ ~out.res.raised) =>
          IF ~out.get_uncertainties
          THEN \A t \in 1..Len(out.res.err) : out.res.err[t].num = 0
          ELSE LET Design(A, oktemp, fit_mask, sivarf) ==
                       ErrOfDesign(out.res.err,
                           CompressRows(
                               [r \in 1..Count(oktemp) |-> [k \in 1..Len(sivarf) |->
                                   Compress(A, oktemp)[r][k] * sivarf[k]
                                     * (IF r > sf.Next /\ k <= sf.Ndata
                                        THEN out.res.scale_fit.x ELSE 1)]],
                               fit_mask),
                           SubSeq(oktemp, sf.Next + 1, Len(oktemp)), sf.Next)
                   Of(A, fit_mask, sivarf) ==
                       Design(A, OkTemp(A, fit_mask), fit_mask, sivarf)
               IN  Of(DesignOfFitCombinedAtZ(sf, out.z, out.eazyp),
                      sf.fit_mask \o [b \in 1..Count(OkPhot(out.eazyp)) |-> TRUE],
                      sf.sivarf \o [b \in 1..Count(OkPhot(out.eazyp)) |->
                                       1 \div Compress(out.eazyp.efnu, OkPhot(out.eazyp))[b]])

(***************************************************************************)
(* Properties of the design matrix of fit_at_z.                            *)
(***************************************************************************)
\* the wavelengths of the unit's pixels that have weight
UsableWave(Ei) == {Ei.wavef[k] : k \in {n \in 1..Ei.size : Ei.ivarf[n] > 0}}

\* the template t, at redshift u, lies outside the unit's usable wavelengths
NoOverlap(Ei, t, u) ==
    \/ \A w \in UsableWave(Ei) : t.lo + u > w
    \/ \A w \in UsableWave(Ei) : t.hi + u < w

\* C11: in fit_at_z, when a redshifted template does not overlap a unit's
\* usable wavelengths its row of the design matrix is zero on the unit's
\* slice and the fit does not raise for it, whatever the unit's state, a
\* unit without any column of positive inverse variance included.
C11_NonOverlapIsZero ==
    (pc = "ret" /\ out.call = "fit_at_z") =>
        /\ out.res.raised => out.res.line # 483
        /\ ~out.res.raised =>
              \A i \in 1..Len(out.templates) : \A j \in 1..sf.Next :
                  NoOverlap(sf.E[j], out.templates[i], out.z) =>
                      \A k \in 1..sf.Ndata :
                          InSlice(k - 1, sf.slices[j]) =>
                              DesignOfFitAtZ(sf, out.z, out.templates)[sf.Next + i][k] = 0

(***************************************************************************)
(* Properties of the degrees of freedom.                                   *)
(***************************************************************************)
\* the sum of the weights (in percent) of the spectroscopic pixels of the mask
SpectroWeight(o) ==
    SeqSum([k \in 1..o.Ndata |-> IF o.fit_mask[k] THEN o.weightf[k] ELSE 0])

\* C12: at every point of the object's lifetime, after the outlier rejection
\* of fit_zgrid too, DoF is the integer part of the sum of the weights of the
\* spectroscopic pixels of the mask, plus the number of accepted photometric
\* points.
C12_DegreesOfFreedom ==
    ~sf.raised => sf.DoF = (SpectroWeight(sf) \div 100) + sf.Nphot

\* C12's case: a run of fit_zgrid has rejected outliers and left a sum of
\* weights that is not a whole number
C12_FractionAfterRejection ==
    /\ ZgridDone
    /\ zargs.outlier_threshold > 0
    /\ SpectroWeight(sf) % 100 # 0
    /\ sf.DoF < StackFitterInit(hdu, cargs).DoF

(***************************************************************************)
(* Properties of the quality metric.                                       *)
(***************************************************************************)
\* the stored curve is flat: every point of it has the same chi2, over two
\* redshifts or more
FlatCurve(t) ==
    /\ \A n \in 1..Len(t.chi2) : t.chi2[n] = t.chi2[1]
    /\ \E n \in 1..Len(t.z) : t.z[n] # t.z[1]

\* C13: area25, 1 - trapz(clip(chi2 - min(chi2), 0, 25), z)/trapz(25, z) over
\* the stored curve, is 0 for a curve that is flat everywhere on the grid.
C13_FlatCurveAreaZero ==
    (ZgridDone /\ FlatCurve(out.table)) => out.table.AREA25.num = 0

(***************************************************************************)
(* Properties of the refinement grids.                                     *)
(***************************************************************************)
\* chi2 plus the prior, of a fit e of the run
EvalCost(e) == e.chi2 + PriorAt(zargs.prior, e.z)

\* the grid zi runs from 4 steps dz below z0 to 4 steps above it (the upper
\* end left out, as arange does)
FourStepsAround(zi, z0, dz) ==
    /\ zi # <<>>
    /\ zi[1] = z0 - 4 * dz
    /\ zi[Len(zi)] >= z0 + 3 * dz
    /\ zi[Len(zi)] < z0 + 4 * dz
    /\ \A i \in 1..(Len(zi) - 1) : zi[i + 1] - zi[i] = dz

\* C14: in every refinement iteration k the new grid is centred on the point
\* of least chi2 (plus prior) among all the points of the curve so far, the
\* coarse grid and every earlier refinement grid, spans 4 steps on each side
\* of it and has the step dz0/2.02^k.
C14_GridAroundBestOfAll ==
    [][(pc = "grid" /\ pc' # "ret") =>
          \E e \in 1..Len(run.evals) :
              /\ \A d \in 1..Len(run.evals) :
                    EvalCost(run.evals[e]) <= EvalCost(run.evals[d])
              /\ FourStepsAround(run'.zi, run.evals[e].z,
                                 (zargs.dz0 * 10000) \div Pow202x[run'.iter])]_vars

(***************************************************************************)
(* Properties of the accumulated curve.                                    *)
(***************************************************************************)
\* how many points of the curve (z, chi2) are the pair (u, c), chi2 taken
\* without the prior
TimesInCurve(z, chi2, prior, u, c) ==
    Cardinality({n \in 1..Len(z) : z[n] = u /\ chi2[n] - PriorAt(prior, z[n]) = c})

\* how many fits of evals gave the pair (u, c)
TimesEvaluated(evals, u, c) ==
    Cardinality({e \in 1..Len(evals) : evals[e].z = u /\ evals[e].chi2 = c})

\* the curve (z, chi2) holds the pairs of the fits evals, each as often, and
\* nothing else
SamePairs(z, chi2, prior, evals) ==
    /\ Len(z) = Len(evals)
    /\ Len(chi2) = Len(evals)
    /\ \A e \in 1..Len(evals) :
          TimesInCurve(z, chi2, prior, evals[e].z, evals[e].chi2)
            = TimesEvaluated(evals, evals[e].z, evals[e].chi2)

\* C15, as the specification states it: the stored curve is exactly the
\* multiset of the (z, chi2) pairs evaluated in the run.
C15_StoredCurveIsEvaluatedPairs ==
    ZgridDone => SamePairs(out.table.z, out.table.chi2, None, out.evals)

\* C15, amended: during the run the accumulated curve only grows and, after
\* the coarse scan and after each refinement iteration, holds every pair
\* evaluated so far; the stored curve holds every pair evaluated in the run,
\* none dropped and none replaced, sorted by redshift, with the prior at its
\* redshift added to the chi2 of each pair when a prior is supplied.
C15_CurveOnlyGrows ==
    [][/\ (run.active /\ run'.active) =>
             /\ IsPrefix(run.z, run'.z)
             /\ IsPrefix(run.chi2, run'.chi2)
             /\ IsPrefix(run.evals, run'.evals)
       /\ (run'.active /\ pc' \in {"grid", "finalize"}) =>
             SamePairs(run'.z, run'.chi2, None, run'.evals)
       /\ (pc' = "ret" /\ out'.call = "fit_zgrid" /\ ~out'.raised) =>
             /\ out'.evals = run.evals
             /\ SamePairs(out'.table.z, out'.table.chi2, zargs.prior, run.evals)
             /\ \A n \in 1..(Len(out'.table.z) - 1) :
                   out'.table.z[n] <= out'.table.z[n + 1]]_vars

\* C15's case: a finished run with a prior that is not zero at a redshift of
\* a refinement grid
C15_PriorInStoredCurve ==
    /\ ZgridDone
    /\ out.table.HASPRIOR
    /\ \E e \in 1..Len(out.evals) :
          out.evals[e].iter > 0 /\ PriorAt(zargs.prior, out.evals[e].z) > 0

(***************************************************************************)
(* Properties of the oktemp filter of fit_at_z.                            *)
(***************************************************************************)
\* the row is zero at every pixel of the mask
ZeroOnMask(row, mask) == \A k \in 1..Len(mask) : mask[k] => row[k] = 0

OwnerOf(o, k) == CHOOSE i \in 1..o.Next : Owns(o.E, i, k)

\* the background bg is, on every spectroscopic pixel, the coefficient that
\* the solve gave the row of the pixel's unit (kept tells the rows solved
\* for), less the pedestal, and is 0 on the n photometric entries after them
BackgroundOf(o, bg, coeffs, kept, n) ==
    /\ Len(bg) = o.Ndata + n
    /\ \A k \in 1..o.Ndata :
          /\ kept[OwnerOf(o, k)]
          /\ bg[k] = coeffs[Count(SubSeq(kept, 1, OwnerOf(o, k)))] - pedestal
    /\ \A k \in (o.Ndata + 1)..(o.Ndata + n) : bg[k] = 0

\* C17: in fit_at_z and in fit_combined_at_z the pedestal is added to the
\* spectroscopic entries of the data vector only; the background returned
\* is the background coefficient of the pixel's unit less the pedestal on
\* every spectroscopic pixel and 0 on every photometric entry, for any
\* number of accepted photometric points, zero included.
C17_PedestalAndBackground ==
    /\ (pc = "ret" /\ out.call = "fit_at_z" /\ ~out.res.raised) =>
          LET Design(A, kept) ==
                  BackgroundOf(sf, out.res.background,
                      Solve(out.fitter,
                            CompressRows(TimesRows(Compress(A, kept), sf.sivarf),
                                         sf.fit_mask),
                            Compress([k \in 1..sf.Ndata |->
                                         (sf.scif[k] + pedestal) * sf.sivarf[k]],
                                     sf.fit_mask)),
                      kept, 0)
              Of(A) == Design(A, OkTemp(A, sf.fit_mask))
          IN  Of(DesignOfFitAtZ(sf, out.z, out.templates))
    /\ (pc = "ret" /\ out.call = "fit_combined_at_z" /\ out.eazyp # None
          /\ sf.Nphot = 0) =>
          /\ out.res.raised => out.res.line # 290
          /\ ~out.res.raised =>
                LET Design(A, kept, n, fit_mask, sivarf) ==
                        BackgroundOf(sf, out.res.background,
                            ObjectiveScale(out.res.scale_fit.x,
                                TimesRows(Compress(A, kept), sivarf),
                                [k \in 1..(sf.Ndata + n) |->
                                    (IF k <= sf.Ndata THEN sf.scif[k] + pedestal
                                     ELSE Compress(out.eazyp.fnu, OkPhot(out.eazyp))
                                              [k - sf.Ndata]) * sivarf[k]],
                                fit_mask, sivarf, n, sf.Next).coeffs,
                            kept, n)
                    Of(A, n, fit_mask, sivarf) ==
                        Design(A, OkTemp(A, fit_mask), n, fit_mask, sivarf)
                IN  Of(DesignOfFitCombinedAtZ(sf, out.z, out.eazyp),
                       Count(OkPhot(out.eazyp)),
                       sf.fit_mask \o [b \in 1..Count(OkPhot(out.eazyp)) |-> TRUE],
                       sf.sivarf \o [b \in 1..Count(OkPhot(out.eazyp)) |->
                                        1 \div Compress(out.eazyp.efnu, OkPhot(out.eazyp))[b]])

(***************************************************************************)
(* Properties of the outlier mask.                                         *)
(***************************************************************************)
\* lines 637-638: the k-th pixel's residual (data - model - background) of
\* the fit r, in units of its uncertainty, is a number below the threshold
\* (below = TRUE) or a number at or above it (below = FALSE)
ResidualIs(o, r, k, threshold, below) ==
    /\ IsFinite(r.full[k])
    /\ ((o.scif[k] - r.full[k] - r.background[k]) * o.sivarf[k] < threshold) = below

\* C18: with outlier_threshold > 0 the last step of fit_zgrid leaves in the
\* fit mask only pixels whose residual to the fit at the best redshift is
\* below the threshold, removes every pixel of the mask whose residual is
\* at or above it and changes no other pixel; with outlier_threshold <= 0
\* the mask and DoF are unchanged.
C18_OutlierMask ==
    [][(pc = "finalize" /\ pc' = "ret") =>
          LET Against(r, threshold) ==
                  IF threshold > 0
                  THEN /\ Len(sf'.fit_mask) = Len(sf.fit_mask)
                       /\ \A k \in 1..Len(sf.fit_mask) :
                             /\ sf'.fit_mask[k] => ResidualIs(sf, r, k, threshold, TRUE)
                             /\ (sf.fit_mask[k] /\ ResidualIs(sf, r, k, threshold, FALSE))
                                    => ~sf'.fit_mask[k]
                             /\ sf'.fit_mask[k] # sf.fit_mask[k] =>
                                    (sf.fit_mask[k] /\ ResidualIs(sf, r, k, threshold, FALSE))
                  ELSE sf'.fit_mask = sf.fit_mask /\ sf'.DoF = sf.DoF
          IN  Against(FinalFit(sf, zargs, out'.zfit), zargs.outlier_threshold)]_vars

\* fit_zgrid has returned after rejecting a pixel of positive weight and
\* keeping another
C18_PixelRejected ==
    /\ ZgridDone
    /\ zargs.outlier_threshold > 0
    /\ \E k \in 1..Len(sf.fit_mask) :
          /\ ~sf.fit_mask[k]
          /\ StackFitterInit(hdu, cargs).fit_mask[k]
          /\ sf.sivarf[k] > 0
    /\ \E k \in 1..Len(sf.fit_mask) : sf.fit_mask[k]

(***************************************************************************)
(* StackedSpectrum._build_model, lines 1095-1114, as a program of its own: *)
(* the header's NAXIS1 and NAXIS2 and the KERNEL image are the input, kept *)
(* in hdu, and the array data is built in out by the three loops in their  *)
(* order.  Indices count from 0 as in the source.  The kernel is in units  *)
(* of its sum (line 1038 divides it by the sum before the call).           *)
(***************************************************************************)
MaxNY == 4
MaxNX == 6

\* NY // 2 with NY = self.sh[0] (Python's floor division)
HalfNY(NY) == NY \div 2

\* -NY // 2: the unary minus binds first, the quotient is the floor of -NY/2
NegHalfNY(NY) == (0 - NY) \div 2

\* a slice bound i on an axis of length n, as Python clamps it
SliceBound(i, n) ==
    IF i < 0 THEN (IF n + i < 0 THEN 0 ELSE n + i)
    ELSE IF i > n THEN n ELSE i

\* the KERNEL images: NY rows, kw columns, all entries different or all equal
KernelImage(NY, kw, same) ==
    [r \in 0..(NY - 1) |-> [c \in 0..(kw - 1) |-> IF same THEN 1 ELSE r * kw + c + 1]]

\* the inputs: a header NAXIS1 x NAXIS2 and a kernel as high as the image,
\* NY wide or one column narrower when NY is odd
BuildInputs ==
    UNION {{[NAXIS1 |-> NX, NAXIS2 |-> NY, kw |-> kw,
              kernel |-> KernelImage(NY, kw, same)] :
                kw \in {NY, IF NY > 1 THEN 2 * (NY \div 2) ELSE NY}, same \in BOOLEAN} :
           NX \in 1..MaxNX, NY \in 1..MaxNY}

\* line 1102: data = np.zeros((NAXIS1, NAXIS2, NAXIS1))
ZerosData(h) ==
    [raised |-> FALSE,
     data |-> [j \in 0..(h.NAXIS1 - 1) |->
                 [r \in 0..(h.NAXIS2 - 1) |-> [c \in 0..(h.NAXIS1 - 1) |-> 0]]]]

\* data[j, :, lo:hi] += self.kernel[:, klo:khi] with the bounds as written
\* (<<i>> for a bound i, <<>> for a bound left out): IndexError for a row j outside -NX..NX-1,
\* ValueError unless the kernel's slice is as wide as the target or one
\* column wide (broadcast); a negative j counts from the last row
AddKernel(d, h, line, j, lo, hi, klo, khi) ==
    LET Add(jj, a, b, ka, kb) ==
            IF kb - ka # b - a /\ kb - ka # 1
            THEN RaisedAt(line)
            ELSE [d EXCEPT !.data[jj] =
                     [r \in 0..(h.NAXIS2 - 1) |->
                        [c \in 0..(h.NAXIS1 - 1) |->
                            IF c >= a /\ c < b
                            THEN d.data[jj][r][c]
                                   + h.kernel[r][IF kb - ka = 1 THEN ka ELSE ka + c - a]
                            ELSE d.data[jj][r][c]]]]
        Width(jj, a, b, ka, kb) ==
            Add(jj, a, IF b < a THEN a ELSE b, ka, IF kb < ka THEN ka ELSE kb)
        Bound(i, n, dflt) == IF i = <<>> THEN dflt ELSE SliceBound(i[1], n)
    IN  IF d.raised THEN d
        ELSE IF j < 0 - h.NAXIS1 \/ j >= h.NAXIS1 THEN RaisedAt(line)
        ELSE Width(IF j < 0 THEN j + h.NAXIS1 ELSE j,
                   Bound(lo, h.NAXIS1, 0), Bound(hi, h.NAXIS1, h.NAXIS1),
                   Bound(klo, h.kw, 0), Bound(khi, h.kw, h.kw))

\* lines 1104-1105: for j in range(NY//2):
\*     data[j,:,:j+NY//2] += self.kernel[:, -NY//2-j:]
RECURSIVE FirstLoop(_, _, _)
FirstLoop(d, h, j) ==
    IF d.raised \/ j >= HalfNY(h.NAXIS2) THEN d
    ELSE FirstLoop(AddKernel(d, h, 1105, j, <<>>, <<j + HalfNY(h.NAXIS2)>>,
                             <<NegHalfNY(h.NAXIS2) - j>>, <<>>), h, j + 1)

\* lines 1107-1108: for j in range(self.sh[1]-NY//2, self.sh[1]):
\*     data[j,:,-NY//2+j:] += self.kernel[:, :self.sh[1]-j+NY//2]
RECURSIVE LastLoop(_, _, _)
LastLoop(d, h, j) ==
    IF d.raised \/ j >= h.NAXIS1 THEN d
    ELSE LastLoop(AddKernel(d, h, 1108, j, <<NegHalfNY(h.NAXIS2) + j>>, <<>>,
                            <<>>, <<h.NAXIS1 - j + HalfNY(h.NAXIS2)>>), h, j + 1)

\* lines 1110-1112: for j in range(NY//2, self.sh[1]-NY//2):
\*     data[j,:,j-NY//2:j+NY//2] += self.kernel
RECURSIVE MiddleLoop(_, _, _)
MiddleLoop(d, h, j) ==
    IF d.raised \/ j >= h.NAXIS1 - HalfNY(h.NAXIS2) THEN d
    ELSE MiddleLoop(AddKernel(d, h, 1112, j, <<j - HalfNY(h.NAXIS2)>>,
                              <<j + HalfNY(h.NAXIS2)>>, <<>>, <<>>), h, j + 1)

\* line 1114: self.fit_data = data.reshape(self.sh[1], -1); row j, and pixel
\* r * NAXIS1 + c for row r and column c of the image
Reshape(d, h) ==
    [j \in 0..(h.NAXIS1 - 1) |->
        [p \in 0..(h.NAXIS2 * h.NAXIS1 - 1) |->
            d.data[j][p \div h.NAXIS1][p % h.NAXIS1]]]

BuildInit ==
    /\ hdu \in BuildInputs
    /\ pc = "first"
    /\ out = ZerosData(hdu)
    /\ cargs = None
    /\ zargs = None
    /\ sf = NoObject
    /\ ncalls = 0
    /\ run = NoRun

\* the outcome d of a loop: the next loop, or the exception
BuildStep(d, next) ==
    /\ out' = d
    /\ pc' = IF d.raised THEN "raised" ELSE next
    /\ UNCHANGED <<hdu, cargs, zargs, sf, ncalls, run>>

FirstColumns ==
    /\ pc = "first"
    /\ BuildStep(FirstLoop(out, hdu, 0), "last")

LastColumns ==
    /\ pc = "last"
    /\ BuildStep(LastLoop(out, hdu, hdu.NAXIS1 - HalfNY(hdu.NAXIS2)), "middle")

MiddleColumns ==
    /\ pc = "middle"
    /\ BuildStep(MiddleLoop(out, hdu, HalfNY(hdu.NAXIS2)), "reshape")

SetFitData ==
    /\ pc = "reshape"
    /\ BuildStep([raised |-> FALSE, fit_data |-> Reshape(out, hdu)], "built")

BuildNext ==
    \/ FirstColumns
    \/ LastColumns
    \/ MiddleColumns
    \/ SetFitData

BuildSpec == BuildInit /\ [][BuildNext]_vars

(***************************************************************************)
(* Properties of _build_model.                                             *)
(***************************************************************************)
\* the kernel's value for row j of the design matrix at the pixel of image
\* row r and column c: the kernel's column c - (j - NY//2), when there is one
KernelAround(h, j, r, c) ==
    IF c - (j - HalfNY(h.NAXIS2)) >= 0 /\ c - (j - HalfNY(h.NAXIS2)) < h.kw
    THEN h.kernel[r][c - (j - HalfNY(h.NAXIS2))]
    ELSE 0

\* C19: for every detector column j, whatever the parity of NY and also for
\* NX < NY, _build_model places the kernel once: row j of the design matrix
\* holds the kernel at the pixels whose column is in the kernel's footprint
\* around j and in [0, NX), truncated at both edges, and is zero elsewhere.
C19_KernelPlacedOnce ==
    /\ pc # "raised"
    /\ pc = "built" =>
          \A j \in 0..(hdu.NAXIS1 - 1), r \in 0..(hdu.NAXIS2 - 1),
             c \in 0..(hdu.NAXIS1 - 1) :
                out.fit_data[j][r * hdu.NAXIS1 + c] = KernelAround(hdu, j, r, c)

(***************************************************************************)
(* Properties of the joint vectors.                                        *)
(***************************************************************************)
\* lines 148-191: the joint vectors of the object o
JointVectors(o) == <<o.scif, o.ivarf, o.sivarf, o.wavef, o.weightf, o.fit_mask>>

\* C20: the joint vectors scif, ivarf, sivarf, wavef, weightf and fit_mask
\* of a constructed object, with or without a catalog, are all Ndata + Nphot
\* long, and fit_at_z and fit_combined_at_z, called directly or by
\* fit_zgrid, apply the mask and the data to a design matrix with as many
\* columns: they do not fail on a length mismatch (lines 489 and 315).
C20_JointVectorsMatchDesign ==
    /\ ~sf.raised =>
          \A i \in 1..Len(JointVectors(sf)) :
             Len(JointVectors(sf)[i]) = sf.Ndata + sf.Nphot
    /\ (pc = "ret" /\ out.call \in {"fit_at_z", "fit_combined_at_z"}
          /\ out.res.raised) => out.res.line \notin {315, 489}
    /\ (pc = "ret" /\ out.call = "fit_zgrid" /\ out.raised) =>
          out.line \notin {315, 489}

(***************************************************************************)
(* Properties of the background rows under the oktemp filter.              *)
(***************************************************************************)
\* lines 503 and 520-524 as the source reads the solved vector: the first
\* Next coefficients are the units' backgrounds, in the units' order, and
\* the others belong to the template rows kept, in the templates' order
AlignedWith(o, r, coeffs, kept) ==
    /\ \A k \in 1..o.Ndata : r.background[k] = coeffs[OwnerOf(o, k)] - pedestal
    /\ \A t \in 1..(Len(kept) - o.Next) :
          kept[o.Next + t] =>
              r.coeffs[t] = coeffs[o.Next + Count(SubSeq(kept, o.Next + 1, o.Next + t))]

C22_FitterOfEveryFit ==
    [][(zargs.eazyp = None /\ zargs.mock = None) =>
          /\ (pc \in {"coarse", "refine"} /\ Len(run'.evals) = Len(run.evals) + 1) =>
                LET Last(e, f) ==
                        /\ e.fitter = zargs.fitter
                        /\ ~f.raised
                        /\ f.chi2 = e.chi2
                    Point(e) == Last(e, FitAtZ(sf, e.z, TComplex, zargs.fitter, FALSE))
                IN  Point(run'.evals[Len(run'.evals)])
          /\ (pc = "finalize" /\ pc' = "ret" /\ ~out'.raised) =>
                LET Best(f) ==
                        /\ out'.table.FITTER = zargs.fitter
                        /\ ~f.raised
                        /\ f.coeffs = out'.coeffs
                        /\ f.err = out'.err
                IN  Best(FitAtZ(sf, out'.zfit, TLines, zargs.fitter, TRUE))]_vars
====
